---- MODULE Spec2Model ----
(***************************************************************************)
(* Dog Adoption Platform: the listing service (controllers/dogController.js *)
(* over models/Dog.js) behind the validation middleware of the dog routes.  *)
(* A request is in `inflight` while it waits between two operations on the  *)
(* document store; each store operation of a handler is one step, taken     *)
(* together with the synchronous code that follows it, so requests          *)
(* interleave exactly at the awaits.                                        *)
(***************************************************************************)
EXTENDS Integers, Sequences, FiniteSets, Bags, TLC

\* ---------------------------------------------------------------- bounds
MaxDogs == 1        \* documents ever inserted while requests overlap
MaxInFlight == 2    \* requests being handled at once
MaxUsers == 2       \* user documents ever inserted

\* ------------------------------------------------------ program constants
MaxMessageLen == 200
MaxNameLen == 50
MaxDescriptionLen == 500
MinUsernameLen == 3
MaxUsernameLen == 30
MinPasswordLen == 6
MinPage == 1
MinLimit == 1
MaxLimit == 100
DefaultPage == 1
DefaultLimit == 10

\* ------------------------------------------------------------ value space
Users == {"u1", "u2", "u3"}          \* authenticated users (req.user._id)
MaxIds == MaxDogs + 1                \* ObjectIds the clients know of
DogIds == 1..MaxIds                  \* well-formed ObjectIds
MalformedId == 0                     \* an :id that is no ObjectId
IdParams == DogIds \cup {MalformedId}

Null == <<>>                         \* null / undefined
Some(x) == <<x>>
Val(o) == o[1]

Spaces == {" "}
Repeat(c, n) == [i \in 1..n |-> c]

\* String.prototype.trim, as used by express-validator's .trim() and by the
\* schema option trim: true
RECURSIVE TrimLeft(_)
TrimLeft(s) == IF s # <<>> /\ Head(s) \in Spaces THEN TrimLeft(Tail(s)) ELSE s
RECURSIVE TrimRight(_)
TrimRight(s) ==
  IF s # <<>> /\ s[Len(s)] \in Spaces THEN TrimRight(SubSeq(s, 1, Len(s) - 1)) ELSE s
Trim(s) == TrimRight(TrimLeft(s))

\* request bodies and queries are records whose fields may be missing
Has(r, f) == f \in DOMAIN r
NoFields == [f \in {} |-> Null]
Field(f, v) == [g \in {f} |-> v]

Messages == { <<" ", "o", "k", " ">>, Repeat("x", MaxMessageLen + 1) }
AdoptBodies == {NoFields} \cup {Field("message", m) : m \in Messages}

Names == { <<"R", "e", "x">>, <<" ">>, Repeat("n", MaxNameLen + 1) }
Descriptions == { <<"k", "i", "n", "d">> }
Usernames ==
  { <<"b", "o", "b">>, <<"B", "o", "b">>, <<" ", "b", "o", "b", " ">>, <<"a", "l", "_", "1">>,
    <<"b", "o">>, <<"b", " ", "b">>, Repeat("u", MaxUsernameLen + 1) }
Passwords == { <<"s", "e", "c", "r", "e", "t">>, <<"1", "2", "3">> }
UserBodies ==
  {NoFields} \cup {Field("username", n) : n \in Usernames}
    \cup {[username |-> n, password |-> p] : n \in Usernames, p \in Passwords}

RegisterBodies ==
  {NoFields} \cup {Field("name", n) : n \in Names}
    \cup {[name |-> n, description |-> d] : n \in Names, d \in Descriptions}


\* query-string values: decimal numerals and other text
DigitVal == [c \in {"0", "1", "2", "3", "4", "5", "6", "7", "8", "9"} |->
               CASE c = "0" -> 0 [] c = "1" -> 1 [] c = "2" -> 2 [] c = "3" -> 3
                 [] c = "4" -> 4 [] c = "5" -> 5 [] c = "6" -> 6 [] c = "7" -> 7
                 [] c = "8" -> 8 [] c = "9" -> 9]
IsDigits(s) == s # <<>> /\ \A i \in 1..Len(s) : s[i] \in DOMAIN DigitVal
RECURSIVE DigitsValue(_)
DigitsValue(s) ==
  IF s = <<>> THEN 0 ELSE 10 * DigitsValue(SubSeq(s, 1, Len(s) - 1)) + DigitVal[s[Len(s)]]
RECURSIVE LeadingDigits(_)
LeadingDigits(s) ==
  IF s # <<>> /\ Head(s) \in DOMAIN DigitVal THEN <<Head(s)>> \o LeadingDigits(Tail(s))
  ELSE <<>>

\* parseInt(v): the leading numeral of the text, NaN (Null) when there is none
\* or when v is undefined
ParseInt(v) ==
  IF v = Null THEN Null
  ELSE LET d == LeadingDigits(TrimLeft(Val(v)))
       IN IF d = <<>> THEN Null ELSE Some(DigitsValue(d))

\* parseInt(v) || dflt : NaN and 0 are falsy
ParseIntOr(v, dflt) ==
  LET n == ParseInt(v) IN IF n = Null \/ Val(n) = 0 THEN dflt ELSE Val(n)

Get(r, f) == IF Has(r, f) THEN Some(r[f]) ELSE Null

PageParams == { <<"2">>, <<"0">>, <<"x">> }
LimitParams == { <<"1">>, <<"0">>, <<"1", "0", "1">> }
StatusParams == {"available", "adopted", "lost"}
Optional(f, S) == {NoFields} \cup {Field(f, v) : v \in S}
Merge(a, b) == [f \in DOMAIN a \cup DOMAIN b |-> IF f \in DOMAIN a THEN a[f] ELSE b[f]]
Queries ==
  { Merge(p, Merge(l, s)) : p \in Optional("page", PageParams),
                            l \in Optional("limit", LimitParams),
                            s \in Optional("status", StatusParams) }

\* ------------------------------------------------- middleware/validation.js
\* isInt({min}) and isInt({min, max}) of validator.js on a query value
IsIntMin(s, min) == IsDigits(s) /\ DigitsValue(s) >= min
IsInt(s, min, max) == IsIntMin(s, min) /\ DigitsValue(s) <= max
IsMongoId(id) == id \in DogIds

ValidationFailed == [status |-> 400, message |-> "Validation failed"]

\* validateUserRegistration: the errors of the chains on username and password;
\* matches(/^[a-zA-Z0-9_]+$/) on the characters the usernames here are made of
WordChars == {"a", "b", "l", "o", "u", "B", "1", "_"}
validateUserRegistration(body) ==
  LET username == IF Has(body, "username") THEN Trim(body.username) ELSE <<>>
      password == IF Has(body, "password") THEN body.password ELSE <<>>
  IN  {f \in {"username"} :
         \/ Len(username) < MinUsernameLen \/ Len(username) > MaxUsernameLen
         \/ \E i \in 1..Len(username) : username[i] \notin WordChars}
        \cup {f \in {"password"} : Len(password) < MinPasswordLen}
sanitizeUserRegistration(body) == [body EXCEPT !.username = Trim(@)]

\* validateDogRegistration: the errors of the chains on name and description
validateDogRegistration(body) ==
  LET name == IF Has(body, "name") THEN Trim(body.name) ELSE <<>>
      description == IF Has(body, "description") THEN Trim(body.description) ELSE <<>>
  IN  { e \in {"name", "description"} :
          \/ e = "name" /\ ~(Len(name) >= 1 /\ Len(name) <= MaxNameLen)
          \/ e = "description"
               /\ ~(Len(description) >= 1 /\ Len(description) <= MaxDescriptionLen) }

\* the sanitizers of validateDogRegistration write the trimmed values back
sanitizeDogRegistration(body) == [f \in DOMAIN body |-> Trim(body[f])]

\* validateDogAdoption: errors of the chains on param id and body message
validateDogAdoption(id, body) ==
  { e \in {"id", "message"} :
      \/ e = "id" /\ ~IsMongoId(id)
      \/ e = "message" /\ Has(body, "message")
           /\ ~(Len(Trim(body.message)) <= MaxMessageLen) }

\* .optional().trim(): a message that is present is replaced by its trimmed text
sanitizeDogAdoption(body) ==
  [f \in DOMAIN body |-> IF f = "message" THEN Trim(body[f]) ELSE body[f]]

validateObjectId(id) == { e \in {"id"} : ~IsMongoId(id) }

validatePagination(query) ==
  { e \in {"page", "limit", "status"} :
      \/ e = "page" /\ Has(query, "page") /\ ~IsIntMin(query.page, MinPage)
      \/ e = "limit" /\ Has(query, "limit") /\ ~IsInt(query.limit, MinLimit, MaxLimit)
      \/ e = "status" /\ Has(query, "status")
           /\ query.status \notin {"available", "adopted"} }


\* ------------------------------------------------------------ models/Dog.js
\* the schema with the adopter defaulting to the owner
NewDog_AdopterIsOwner(id, name, description, owner, t) ==
  [ _id |-> id, name |-> Trim(name), description |-> Trim(description),
    owner |-> owner, adopter |-> Some(owner), adoptionMessage |-> Null,
    status |-> "available", adoptedAt |-> Null, createdAt |-> t, updatedAt |-> t ]

\* new Dog({name, description, owner}) with the schema defaults, and the
\* timestamps the first save writes
NewDog(id, name, description, owner, t) ==
  [ _id |-> id, name |-> Trim(name), description |-> Trim(description),
    owner |-> owner, adopter |-> Null, adoptionMessage |-> Null,
    status |-> "available", adoptedAt |-> Null, createdAt |-> t, updatedAt |-> t ]

\* adoptDog without line 59: adoptedAt is left as loaded
adoptDog_NoDate(dog, adopterId, message, t) ==
  [dog EXCEPT !.adopter = Some(adopterId),
              !.adoptionMessage = IF message = Null THEN Null ELSE Some(Trim(Val(message))),
              !.status = "adopted"]

\* dogSchema.methods.adoptDog (message is Null when undefined)
adoptDog(dog, adopterId, message, t) ==
  [dog EXCEPT !.adopter = Some(adopterId),
              !.adoptionMessage = IF message = Null THEN Null ELSE Some(Trim(Val(message))),
              !.status = "adopted",
              !.adoptedAt = Some(t)]

Paths == {"name", "description", "owner", "adopter", "adoptionMessage", "status", "adoptedAt"}
\* the paths mongoose marks modified: those set to a value other than the loaded one
ModifiedPaths(loaded, dog) == {f \in Paths : dog[f] # loaded[f]}

\* Model.findById
findById(docs, id) == IF id \in DOMAIN docs THEN Some(docs[id]) ELSE Null

\* save() of a new document: insertOne
insertOne(docs, dog) == [d \in DOMAIN docs \cup {dog._id} |-> IF d = dog._id THEN dog ELSE docs[d]]

\* save() of a loaded document: the timestamps plugin sets updatedAt, then
\* updateOne({_id}, {$set: modified paths}), which matches nothing once the
\* document is gone
touch(dog, t) == [dog EXCEPT !.updatedAt = t]
updateOne(docs, dog, modified) ==
  IF dog._id \in DOMAIN docs
  THEN [docs EXCEPT ![dog._id] =
          [f \in DOMAIN @ |-> IF f \in modified \cup {"updatedAt"} THEN dog[f] ELSE @[f]]]
  ELSE docs

\* Model.findByIdAndDelete
findByIdAndDelete(docs, id) == [d \in DOMAIN docs \ {id} |-> docs[d]]

\* a query filter is a record of the fields to match
Matches(filter, dog) ==
  \A f \in DOMAIN filter :
     IF f = "adopter" THEN dog.adopter = Some(filter[f]) ELSE dog[f] = filter[f]
Matching(docs, filter) == {d \in DOMAIN docs : Matches(filter, docs[d])}

\* Model.countDocuments
countDocuments(docs, filter) == Cardinality(Matching(docs, filter))

\* find(filter).sort({createdAt: -1}): every order of the matching documents
\* that is newest first (documents of one createdAt come in any order)
Sorted(docs, filter) ==
  LET ids == Matching(docs, filter)
      n == Cardinality(ids)
  IN  { [i \in 1..n |-> docs[o[i]]] :
          o \in { q \in [1..n -> ids] :
                    /\ \A i, j \in 1..n : i # j => q[i] # q[j]
                    /\ \A i, j \in 1..n : i < j => docs[q[i]].createdAt >= docs[q[j]].createdAt } }

Min(a, b) == IF a < b THEN a ELSE b

\* .skip(skip).limit(limit) of a result sequence
SkipLimit(seq, skip, limit) == SubSeq(seq, skip + 1, Min(Len(seq), skip + limit))

\* dogSchema.statics.getPaginatedDogs: the pages the query can return
getPaginatedDogs(docs, filter, page, limit) ==
  LET skip == (page - 1) * limit
  IN  { SkipLimit(seq, skip, limit) : seq \in Sorted(docs, filter) }


\* ------------------------------------------------ controllers/dogController.js
NotFound == [status |-> 404, message |-> "Dog not found"]
AlreadyAdopted == [status |-> 400, message |-> "Dog has already been adopted"]
SelfAdoption == [status |-> 400, message |-> "You cannot adopt your own dog"]
Forbidden == [status |-> 403, message |-> "You can only remove dogs that you registered"]
CannotRemove == [status |-> 400, message |-> "Cannot remove an adopted dog"]
Removed == [status |-> 200, message |-> "Dog removed successfully"]
Unhandled == [status |-> 500, message |-> "Unhandled"]   \* catch: next(error)
Registered(dog) == [status |-> 201, message |-> "Dog registered successfully", dog |-> dog]
\* adoptDog answering the saved adoption with the already-adopted failure
Adopted_AsFailure(dog) == AlreadyAdopted
Adopted(dog) == [status |-> 200, message |-> "Dog adopted successfully", dog |-> dog]

\* adoptDog comparing the two ObjectIds without toString(): never equal
adoptDogChecks_NoOwnerCheck(dog, adopterId) ==
  IF dog = Null THEN Some(NotFound)
  ELSE IF Val(dog).status = "adopted" THEN Some(AlreadyAdopted)
  ELSE Null

\* adoptDog with its two checks in the other order
adoptDogChecks_OwnerFirst(dog, adopterId) ==
  IF dog = Null THEN Some(NotFound)
  ELSE IF Val(dog).owner = adopterId THEN Some(SelfAdoption)
  ELSE IF Val(dog).status = "adopted" THEN Some(AlreadyAdopted)
  ELSE Null

\* adoptDog, after findById: the early return taken, Null when there is none
adoptDogChecks(dog, adopterId) ==
  IF dog = Null THEN Some(NotFound)
  ELSE IF Val(dog).status = "adopted" THEN Some(AlreadyAdopted)
  ELSE IF Val(dog).owner = adopterId THEN Some(SelfAdoption)
  ELSE Null

\* removeDog with its two checks in the other order
removeDogChecks_StatusFirst(dog, userId) ==
  IF dog = Null THEN Some(NotFound)
  ELSE IF Val(dog).status = "adopted" THEN Some(CannotRemove)
  ELSE IF Val(dog).owner # userId THEN Some(Forbidden)
  ELSE Null

\* removeDog, after findById: the early return taken, Null when there is none
removeDogChecks(dog, userId) ==
  IF dog = Null THEN Some(NotFound)
  ELSE IF Val(dog).owner # userId THEN Some(Forbidden)
  ELSE IF Val(dog).status = "adopted" THEN Some(CannotRemove)
  ELSE Null

\* getAllDogs taking the status of the query, as getRegisteredDogs does
allDogsFilter_FromQuery(user, query) ==
  IF Has(query, "status") /\ query.status # ""
  THEN [status |-> query.status]
  ELSE [status |-> "available"]

\* getRegisteredDogs without the owner in its filter
registeredFilter_NoOwner(user, query) ==
  IF Has(query, "status") /\ query.status # ""
  THEN [status |-> query.status]
  ELSE [f \in {} |-> Null]

\* the filters of the three list handlers
registeredFilter(user, query) ==
  IF Has(query, "status") /\ query.status # ""
  THEN [owner |-> user, status |-> query.status]
  ELSE [owner |-> user]
adoptedFilter(user, query) == [adopter |-> user]
allDogsFilter(user, query) == [status |-> "available"]

ListHandlers == {"getRegisteredDogs", "getAdoptedDogs", "getAllDogs"}
FilterOf(handler, user, query) ==
  CASE handler = "getRegisteredDogs" -> registeredFilter(user, query)
    [] handler = "getAdoptedDogs" -> adoptedFilter(user, query)
    [] handler = "getAllDogs" -> allDogsFilter(user, query)

\* Math.floor in place of Math.ceil
Ceil_Floor(total, limit) == total \div limit

\* Math.ceil(total / limit)
Ceil(total, limit) == (total + limit - 1) \div limit

\* the pagination object of a list response
Pagination(page, limit, total) ==
  LET totalPages == Ceil(total, limit)
  IN  [ currentPage |-> page, totalPages |-> totalPages, totalDogs |-> total,
        hasNextPage |-> page < totalPages, hasPrevPage |-> page > 1 ]

Listed(dogs, pagination) == [status |-> 200, dogs |-> dogs, pagination |-> pagination]

\* ------------------------------------------------------- routes/dogRoutes.js
\* middleware/auth.js: the Authorization header carries no token, a token that
\* does not verify, or the token issued to a user
MissingToken == [status |-> 401, message |-> "Access token required"]
InvalidToken == [status |-> 401, message |-> "Invalid token"]
TokenOf(user) == Some(<<"jwt", user>>)
BadTokens == {Null, Some(<<"invalidtoken">>)}
authenticateToken(token) ==
  IF token = Null THEN Some(MissingToken)
  ELSE IF \A user \in Users : token # TokenOf(user) THEN Some(InvalidToken)
  ELSE Null

\* router.METHOD(path, validator, controller)
ValidatorOf(handler) ==
  CASE handler = "registerDog" -> "validateDogRegistration"
    [] handler \in ListHandlers -> "validatePagination"
    [] handler = "getDogById" -> "validateObjectId"
    [] handler = "adoptDog" -> "validateDogAdoption"
    [] handler = "removeDog" -> "validateObjectId"

\* the routes declared before router.use(authenticateToken)
Stack_ValidatorFirst(handler) == <<ValidatorOf(handler), "authenticateToken", handler>>

\* the middleware a request to a route runs through, in order:
\* router.use(authenticateToken) comes before every route
Stack(handler) == <<"authenticateToken", ValidatorOf(handler), handler>>

\* what a middleware of the stack answers to request r, Null when it calls next()
Verdict(mw, r) ==
  LET failed(errors) == IF errors # {} THEN Some(ValidationFailed) ELSE Null
  IN  CASE mw = "authenticateToken" -> authenticateToken(r.token)
        [] mw = "validateDogRegistration" -> failed(validateDogRegistration(r.body))
        [] mw = "validateDogAdoption" -> failed(validateDogAdoption(r.id, r.body))
        [] mw = "validateObjectId" -> failed(validateObjectId(r.id))
        [] mw = "validatePagination" -> failed(validatePagination(r.query))
        [] OTHER -> Null

\* the middleware that run for r: the stack up to the first one that answers
RECURSIVE Ran(_, _)
Ran(stack, r) ==
  IF stack = <<>> THEN <<>>
  ELSE IF Verdict(Head(stack), r) # Null THEN <<Head(stack)>>
  ELSE <<Head(stack)>> \o Ran(Tail(stack), r)

\* requests to the dog routes that carry no token or one that does not verify
UnauthenticatedQueries == {NoFields, Field("limit", <<"0">>)}
Unauthenticated ==
  {[handler |-> "registerDog", token |-> t, body |-> b] : t \in BadTokens, b \in RegisterBodies}
    \cup {[handler |-> "adoptDog", token |-> t, id |-> i, body |-> b] :
             t \in BadTokens, i \in IdParams, b \in AdoptBodies}
    \cup {[handler |-> h, token |-> t, id |-> i] :
             h \in {"removeDog", "getDogById"}, t \in BadTokens, i \in IdParams}
    \cup {[handler |-> h, token |-> t, query |-> q] :
             h \in ListHandlers, t \in BadTokens, q \in UnauthenticatedQueries}

\* ------------------------------------------------ controllers/authController.js
DuplicateUsername == [status |-> 400, message |-> "Username already exists"]
UserRegistered(user) ==
  [ status |-> 201, message |-> "User registered successfully",
    user |-> [_id |-> user._id, username |-> user.username], token |-> TokenOf(user._id) ]
Hash(password) == <<"hash", password>>
NewUser(id, username, password) ==
  [_id |-> id, username |-> username, password |-> Hash(password)]
\* User.findOne({ username })
findOne(docs, username) ==
  IF \E i \in 1..Len(docs) : docs[i].username = username
  THEN Some(docs[CHOOSE i \in 1..Len(docs) : docs[i].username = username])
  ELSE Null

\* registerUser creating the user without looking the username up
registerUserChecks_NoLookup(docs, username) == Null

\* registerUser: the early return taken, Null when there is none
registerUserChecks(docs, username) ==
  IF findOne(docs, username) # Null THEN Some(DuplicateUsername) ELSE Null

\* ------------------------------------------------------------------- state
VARIABLES
  store,      \* the dogs collection: _id -> document
  nextId,     \* the next ObjectId the driver generates
  inflight,   \* bag of the requests waiting on the store, with their locals
  out,        \* the response the running step sends, with its request, or Null
  adoptions,  \* history: per dog id, the users sent 'Dog adopted successfully'
  users       \* the users collection: the documents in insertion order

vars == <<store, nextId, inflight, out, adoptions, users>>

Init ==
  /\ store = [d \in {} |-> Null]
  /\ nextId = 1
  /\ inflight = EmptyBag
  /\ out = Null
  /\ adoptions = [d \in DogIds |-> {}]
  /\ users = <<>>

\* new Date(): the clock, read in units of the documents inserted so far
Now == nextId - 1

Waiting == BagToSet(inflight)
\* a step runs to its end before the next one starts
Ready == out = Null
Accepting == Ready /\ BagCardinality(inflight) < MaxInFlight
Enter(w) == inflight (+) SetToBag({w})
Leave(w) == inflight (-) SetToBag({w})

\* a response, with the request it answers
Response(q, res) == Some([req |-> q, res |-> res])

\* res.json returns: the step that sent a response ends
Respond ==
  /\ out # Null
  /\ out' = Null
  /\ UNCHANGED <<store, nextId, inflight, adoptions, users>>

\* POST /api/dogs : validateDogRegistration, registerDog; at most cap documents
\* are ever inserted
Register(cap) ==
  /\ Accepting
  /\ \E user \in Users, body \in RegisterBodies :
       LET q == [handler |-> "registerDog", user |-> user]
       IN  IF validateDogRegistration(body) # {}
           THEN /\ out' = Response(q, ValidationFailed)
                /\ UNCHANGED <<store, nextId>>
           ELSE /\ nextId <= cap
                /\ LET b == sanitizeDogRegistration(body)
                       dog == NewDog(nextId, b.name, b.description, user, Now)
                   IN  /\ store' = insertOne(store, dog)
                       /\ nextId' = nextId + 1
                       /\ out' = Response(q, Registered(dog))
  /\ UNCHANGED <<inflight, adoptions, users>>

RegisterDog == Register(MaxDogs)

\* PUT /api/dogs/:id/adopt : validateDogAdoption, then adoptDog until findById
\* has resolved, the checks have run and dog.adoptDog and save are called
AdoptFind ==
  /\ Accepting
  /\ \E user \in Users, id \in IdParams, body \in AdoptBodies :
       LET q == [handler |-> "adoptDog", user |-> user, id |-> id, body |-> body]
           dog == findById(store, id)
           early == adoptDogChecks(dog, user)
           mine == adoptDog(Val(dog), user, Get(sanitizeDogAdoption(body), "message"), Now)
       IN  IF validateDogAdoption(id, body) # {}
           THEN out' = Response(q, ValidationFailed) /\ UNCHANGED inflight
           ELSE IF early # Null
           THEN out' = Response(q, Val(early)) /\ UNCHANGED inflight
           ELSE /\ inflight' = Enter([ req |-> q, pc |-> "save", dog |-> touch(mine, Now),
                                       modified |-> ModifiedPaths(Val(dog), mine) ])
                /\ out' = Null
  /\ UNCHANGED <<store, nextId, adoptions, users>>

\* adoptDog: the update of save reaches the store, then the response; a save
\* that matched no document rejects (DocumentNotFoundError) and goes to next(error)
AdoptSave ==
  /\ Ready
  /\ \E w \in Waiting :
       /\ w.pc = "save"
       /\ inflight' = Leave(w)
       /\ IF w.dog._id \in DOMAIN store
          THEN /\ store' = updateOne(store, w.dog, w.modified)
               /\ adoptions' = [adoptions EXCEPT ![w.dog._id] = @ \cup {w.req.user}]
               /\ out' = Response(w.req, Adopted(w.dog))
          ELSE /\ out' = Response(w.req, Unhandled)
               /\ UNCHANGED <<store, adoptions>>
  /\ UNCHANGED <<nextId, users>>

\* DELETE /api/dogs/:id : validateObjectId, then removeDog until findById has
\* resolved, the checks have run and findByIdAndDelete is called
RemoveFind ==
  /\ Accepting
  /\ \E user \in Users, id \in IdParams :
       LET q == [handler |-> "removeDog", user |-> user, id |-> id]
           early == removeDogChecks(findById(store, id), user)
       IN  IF validateObjectId(id) # {}
           THEN out' = Response(q, ValidationFailed) /\ UNCHANGED inflight
           ELSE IF early # Null
           THEN out' = Response(q, Val(early)) /\ UNCHANGED inflight
           ELSE /\ inflight' = Enter([req |-> q, pc |-> "findByIdAndDelete"])
                /\ out' = Null
  /\ UNCHANGED <<store, nextId, adoptions, users>>

\* removeDog: findByIdAndDelete reaches the store, then the response
RemoveDelete ==
  /\ Ready
  /\ \E w \in Waiting :
       /\ w.pc = "findByIdAndDelete"
       /\ inflight' = Leave(w)
       /\ store' = findByIdAndDelete(store, w.req.id)
       /\ out' = Response(w.req, Removed)
  /\ UNCHANGED <<nextId, adoptions, users>>

\* GET /api/dogs, /api/dogs/registered, /api/dogs/adopted : validatePagination,
\* then the handler until the find of getPaginatedDogs has resolved and
\* countDocuments is called
ListPage ==
  /\ Accepting
  /\ \E handler \in ListHandlers, user \in Users, query \in Queries :
       LET q == [handler |-> handler, user |-> user, query |-> query]
       IN  IF validatePagination(query) # {}
           THEN out' = Response(q, ValidationFailed) /\ UNCHANGED inflight
           ELSE LET page == ParseIntOr(Get(query, "page"), DefaultPage)
                    limit == ParseIntOr(Get(query, "limit"), DefaultLimit)
                    filter == FilterOf(handler, user, query)
                IN  /\ \E dogs \in getPaginatedDogs(store, filter, page, limit) :
                         inflight' = Enter([ req |-> q, pc |-> "countDocuments",
                                             page |-> page, limit |-> limit,
                                             filter |-> filter, dogs |-> dogs ])
                    /\ out' = Null
  /\ UNCHANGED <<store, nextId, adoptions, users>>

\* countDocuments resolves, then the response
ListCount ==
  /\ Ready
  /\ \E w \in Waiting :
       /\ w.pc = "countDocuments"
       /\ inflight' = Leave(w)
       /\ out' = Response(w.req, Listed(w.dogs,
                    Pagination(w.page, w.limit, countDocuments(store, w.filter))))
  /\ UNCHANGED <<store, nextId, adoptions, users>>

\* a request to a dog route that a middleware before the controller answers:
\* no token, or one that does not verify
Rejected ==
  /\ Accepting
  /\ \E r \in Unauthenticated :
       LET ran == Ran(Stack(r.handler), r)
           answer == Verdict(ran[Len(ran)], r)
       IN  /\ answer # Null
           /\ out' = Some([req |-> r, res |-> Val(answer), ran |-> ran])
  /\ UNCHANGED <<store, nextId, inflight, adoptions, users>>

\* POST /api/auth/register : validateUserRegistration, registerUser
RegisterUser ==
  /\ Accepting
  /\ \E body \in UserBodies :
       LET q == [handler |-> "registerUser", body |-> body]
       IN  IF validateUserRegistration(body) # {}
           THEN out' = Response(q, ValidationFailed) /\ UNCHANGED users
           ELSE LET b == sanitizeUserRegistration(body)
                    early == registerUserChecks(users, b.username)
                    user == NewUser(Len(users) + 1, b.username, b.password)
                IN  IF early # Null
                    THEN out' = Response(q, Val(early)) /\ UNCHANGED users
                    ELSE /\ Len(users) < MaxUsers
                         /\ users' = Append(users, user)
                         /\ out' = Response(q, UserRegistered(user))
  /\ UNCHANGED <<store, nextId, inflight, adoptions>>

\* the writing requests alone
Next ==
  \/ RegisterDog
  \/ AdoptFind \/ AdoptSave
  \/ RemoveFind \/ RemoveDelete
  \/ Respond

Spec == Init /\ [][Next]_vars

Listing == {w \in Waiting : w.pc = "countDocuments"}
Writing == Waiting \ Listing

\* one list request at a time, beside writing requests that follow one another
NextList ==
  \/ RegisterDog
  \/ (Writing = {} /\ AdoptFind) \/ AdoptSave
  \/ (Writing = {} /\ RemoveFind) \/ RemoveDelete
  \/ (Listing = {} /\ ListPage) \/ ListCount
  \/ Respond

SpecList == Init /\ [][NextList]_vars

\* requests that follow one another, each answered before the next arrives,
\* on as many dogs as there are ids
NextSeq ==
  \/ (Waiting = {} /\ Register(MaxIds))
  \/ (Waiting = {} /\ AdoptFind) \/ AdoptSave
  \/ (Waiting = {} /\ RemoveFind) \/ RemoveDelete
  \/ (Waiting = {} /\ Rejected)
  \/ Respond

SpecSeq == Init /\ [][NextSeq]_vars

\* the register requests of the auth routes, one after another
NextAuth == RegisterUser \/ Respond

SpecAuth == Init /\ [][NextAuth]_vars

\* --------------------------------------------------------------- properties
Sent == Val(out)
SentBy(handler) == out # Null /\ Sent.req.handler = handler
Exists(id) == id \in DOMAIN store
IsAdopted(id) == Exists(id) /\ store[id].status = "adopted"
IsAvailable(id) == Exists(id) /\ store[id].status = "available"

AdoptRequest(user, id, body) ==
  [handler |-> "adoptDog", user |-> user, id |-> id, body |-> body]
RemoveRequest(user, id) == [handler |-> "removeDog", user |-> user, id |-> id]

\* the step takes up request q: q is answered by it, or waits on the store after it
Started(q) ==
  /\ out = Null
  /\ \/ out' # Null /\ Val(out').req = q /\ inflight' = inflight
     \/ \E w \in BagToSet(inflight') :
          w.req = q /\ CopiesIn(w, inflight') > CopiesIn(w, inflight)

\* the requests the step takes up
Starting ==
  IF out # Null THEN {}
  ELSE IF out' # Null /\ inflight' = inflight THEN {Val(out').req}
  ELSE {w.req : w \in {v \in BagToSet(inflight') : CopiesIn(v, inflight') > CopiesIn(v, inflight)}}

\* C1: two adoptDog requests on one dog by two users never both succeed: no
\* dog has sent 'Dog adopted successfully' to more than one user.
C1_OneAdopterSucceeds == \A d \in DogIds : Cardinality(adoptions[d]) <= 1

\* C2: a successful adoptDog leaves the dog adopted by the requester with
\* adoptedAt set, and every adoptDog request on that dog that starts after the
\* success response (and passes validation) is answered AlreadyAdopted.
C2_AdoptedThenAlreadyAdopted ==
  [][ /\ \A w \in Waiting :
           (w.pc = "save" /\ out' = Response(w.req, Adopted(w.dog)))
             => /\ w.req.id \in DOMAIN store'
                /\ store'[w.req.id].status = "adopted"
                /\ store'[w.req.id].adopter = Some(w.req.user)
                /\ store'[w.req.id].adoptedAt # Null
      /\ \A user \in Users, id \in DogIds, body \in AdoptBodies :
           ( /\ Started(AdoptRequest(user, id, body))
             /\ validateDogAdoption(id, body) = {}
             /\ adoptions[id] # {} )
             => out' = Response(AdoptRequest(user, id, body), AlreadyAdopted)
    ]_vars

\* C3: a dog whose status has become adopted is never deleted from the store.
C3_AdoptedNeverDeleted ==
  [][ \A d \in DogIds : IsAdopted(d) => d \in DOMAIN store' ]_vars

\* C4: every dog record has status adopted exactly when its adopter and its
\* adoptedAt are both non-null.
C4_AdoptedIffAdopterAndDate ==
  \A d \in DOMAIN store :
     (store[d].status = "adopted") <=> (store[d].adopter # Null /\ store[d].adoptedAt # Null)

C4_Witness ==
  \E d \in DOMAIN store :
     /\ store[d].status = "adopted" /\ store[d].adopter # Null /\ store[d].adoptedAt # Null
     /\ SentBy("adoptDog") /\ Sent.res.status = 200

\* C5: no dog record has its owner as adopter.
C5_OwnerIsNotAdopter == \A d \in DOMAIN store : store[d].adopter # Some(store[d].owner)

C5_Witness ==
  \E d \in DOMAIN store :
     /\ Cardinality(adoptions[d]) = 2
     /\ store[d].adopter # Null /\ store[d].adopter # Some(store[d].owner)

\* C6: once a dog is adopted its record stays in the store with the same
\* status, adopter, adoptionMessage and adoptedAt.
C6_AdoptedRecordFrozen ==
  [][ \A d \in DogIds :
        IsAdopted(d) =>
          /\ d \in DOMAIN store'
          /\ store'[d].status = store[d].status
          /\ store'[d].adopter = store[d].adopter
          /\ store'[d].adoptionMessage = store[d].adoptionMessage
          /\ store'[d].adoptedAt = store[d].adoptedAt ]_vars

\* C7 as stated: adoptDog by the owner of an existing dog is answered
\* SelfAdoption whatever the message, and leaves the store unchanged.
C7_OwnerAlwaysSelfAdoption ==
  [][ \A user \in Users, id \in DogIds, body \in AdoptBodies :
        ( /\ Started(AdoptRequest(user, id, body))
          /\ Exists(id) /\ store[id].owner = user )
          => /\ out' = Response(AdoptRequest(user, id, body), SelfAdoption)
             /\ store' = store ]_vars

\* C7 amended: adoptDog by the owner of an existing dog always fails with a
\* 400 and leaves the store unchanged; the answer is SelfAdoption when the dog
\* is still available and the message passes validation, AlreadyAdopted when
\* the dog is adopted and the message passes validation, and 'Validation
\* failed' when the trimmed message is longer than 200 characters.
C7_OwnerCannotAdopt ==
  [][ \A q \in Starting :
        ( /\ q.handler = "adoptDog"
          /\ Exists(q.id) /\ store[q.id].owner = q.user )
          => /\ store' = store
             /\ out' # Null /\ Val(out').req = q /\ Val(out').res.status = 400
             /\ Val(out').res =
                  IF validateDogAdoption(q.id, q.body) # {} THEN ValidationFailed
                  ELSE IF store[q.id].status = "adopted" THEN AlreadyAdopted
                  ELSE SelfAdoption ]_vars

C7_Witness ==
  /\ SentBy("adoptDog") /\ Sent.res = SelfAdoption
  /\ Has(Sent.req.body, "message")
  /\ IsAvailable(Sent.req.id) /\ store[Sent.req.id].owner = Sent.req.user

\* C8: removeDog on an existing dog by a user who is not its owner is answered
\* Forbidden, whether the dog is available or adopted, and the record stays.
C8_NonOwnerForbidden ==
  [][ \A q \in Starting :
        ( /\ q.handler = "removeDog"
          /\ Exists(q.id) /\ store[q.id].owner # q.user )
          => /\ out' = Response(q, Forbidden)
             /\ store' = store ]_vars

C8_Witness ==
  /\ SentBy("removeDog") /\ Sent.res = Forbidden
  /\ IsAdopted(Sent.req.id) /\ store[Sent.req.id].owner # Sent.req.user

\* a list response that carries its page and pagination
Lists == out # Null /\ Sent.req.handler \in ListHandlers /\ Sent.res.status = 200

AllAvailable(dogs) == \A i \in 1..Len(dogs) : dogs[i].status = "available"

\* C9: every dog getAllDogs reads into its page, and every dog of a getAllDogs
\* response, has status available, whatever the page, limit and status of the query.
C9_AllDogsOnlyAvailable ==
  /\ \A w \in Waiting :
        (w.pc = "countDocuments" /\ w.req.handler = "getAllDogs") => AllAvailable(w.dogs)
  /\ (Lists /\ Sent.req.handler = "getAllDogs") => AllAvailable(Sent.res.dogs)

C9_Witness ==
  /\ Lists /\ Sent.req.handler = "getAllDogs"
  /\ Has(Sent.req.query, "status") /\ Sent.req.query.status = "adopted"
  /\ \E d \in DOMAIN store : store[d].status = "adopted"
  /\ Sent.res.dogs = <<>>

\* the request as the claim reads it
PageAsked(query) == IF Has(query, "page") THEN DigitsValue(query.page) ELSE 1
LimitAsked(query) == IF Has(query, "limit") THEN DigitsValue(query.limit) ELSE 10
Wanted(q, dog) ==
  CASE q.handler = "getRegisteredDogs" ->
         dog.owner = q.user /\ (Has(q.query, "status") => dog.status = q.query.status)
    [] q.handler = "getAdoptedDogs" -> dog.adopter = Some(q.user)
    [] q.handler = "getAllDogs" -> dog.status = "available"
TotalWanted(q) == Cardinality({d \in DOMAIN store : Wanted(q, store[d])})
PagesOf(total, limit) ==
  CHOOSE n \in 0..total : n * limit >= total /\ (n = 0 \/ (n - 1) * limit < total)
Max(a, b) == IF a > b THEN a ELSE b

\* no write fell between the page query and the count query: the page sent is
\* one the page query returns on the store the count was taken from
Undisturbed ==
  Sent.res.dogs \in getPaginatedDogs(store,
                      FilterOf(Sent.req.handler, Sent.req.user, Sent.req.query),
                      PageAsked(Sent.req.query), LimitAsked(Sent.req.query))

C11_RegisteredOnlyOwn ==
  (Lists /\ Sent.req.handler = "getRegisteredDogs") =>
     /\ \A i \in 1..Len(Sent.res.dogs) :
          /\ Sent.res.dogs[i].owner = Sent.req.user
          /\ Has(Sent.req.query, "status") =>
                /\ Sent.req.query.status \in {"available", "adopted"}
                /\ Sent.res.dogs[i].status = Sent.req.query.status
     /\ Sent.res.pagination.totalDogs =
          Cardinality({d \in DOMAIN store :
             /\ store[d].owner = Sent.req.user
             /\ Has(Sent.req.query, "status") => store[d].status = Sent.req.query.status})

C11_Witness ==
  /\ Lists /\ Sent.req.handler = "getRegisteredDogs"
  /\ Has(Sent.req.query, "status") /\ Sent.req.query.status = "adopted"
  /\ \E d \in DOMAIN store :
        store[d].owner # Sent.req.user /\ store[d].status = "adopted"
  /\ Sent.res.dogs = <<>> /\ Sent.res.pagination.totalDogs = 0

\* C12: a registerDog request answered 201 adds exactly one record, with
\* status available, adopter null, adoptedAt null and the requester as owner,
\* and leaves every record that was in the store as it was.
C12_RegisteredDogIsFresh ==
  [][ ( /\ out = Null /\ out' # Null
        /\ Val(out').req.handler = "registerDog" /\ Val(out').res.status = 201 )
      => LET added == DOMAIN store' \ DOMAIN store
         IN  /\ Cardinality(added) = 1
             /\ \A d \in added :
                  /\ store'[d].status = "available"
                  /\ store'[d].adopter = Null
                  /\ store'[d].adoptedAt = Null
                  /\ store'[d].owner = Val(out').req.user
                  /\ Val(out').res.dog = store'[d]
             /\ \A d \in DOMAIN store : d \in DOMAIN store' /\ store'[d] = store[d] ]_vars

C12_Witness ==
  /\ SentBy("registerDog") /\ Sent.res.status = 201
  /\ IsAvailable(Sent.res.dog._id)
  /\ store[Sent.res.dog._id].owner = Sent.req.user
  /\ \E d \in DOMAIN store : d # Sent.res.dog._id /\ IsAdopted(d)

\* C13: a request to any dog route with no token or with a token that does
\* not verify is answered 401 by authenticateToken ('Access token required',
\* 'Invalid token'); no validator and no controller runs for it and the store
\* is unchanged, also when its body, query or id is invalid.
C13_AuthenticateFirst ==
  [][ \A r \in Unauthenticated :
        (out = Null /\ out' # Null /\ Val(out').req = r)
          => /\ Val(out').res.status = 401
             /\ Val(out').res = IF r.token = Null THEN MissingToken ELSE InvalidToken
             /\ Val(out').ran = <<"authenticateToken">>
             /\ store' = store /\ inflight' = inflight /\ nextId' = nextId ]_vars

C13_Witness ==
  /\ SentBy("adoptDog") /\ Sent.req \in Unauthenticated
  /\ Sent.req.token # Null /\ Sent.req.id = MalformedId
  /\ Sent.res = InvalidToken
  /\ \E d \in DOMAIN store : IsAvailable(d)

\* C14: a register request whose (trimmed) username is already in the users
\* collection is answered 400 'Username already exists' and creates no user;
\* after every step no two user records have the same username.
C14_UsernamesUnique ==
  [][ /\ \A body \in UserBodies :
           ( /\ out = Null /\ out' # Null
             /\ Val(out').req = [handler |-> "registerUser", body |-> body]
             /\ validateUserRegistration(body) = {}
             /\ \E i \in 1..Len(users) : users[i].username = Trim(body.username) )
             => /\ Val(out').res = DuplicateUsername
                /\ users' = users
      /\ \A i, j \in 1..Len(users') :
           users'[i].username = users'[j].username => i = j ]_vars

C14_Witness ==
  /\ SentBy("registerUser") /\ Sent.res = DuplicateUsername
  /\ Sent.req.body.username # Trim(Sent.req.body.username)
  /\ Len(users) = 2
  /\ \E i \in 1..Len(users) : users[i].username = Trim(Sent.req.body.username)

\* C15: at most one removeDog request on a dog is answered 'Dog removed
\* successfully'; ids are never issued twice, so each such answer comes from a
\* findByIdAndDelete that found the dog, and of two overlapping removals by the
\* owner the second finds nothing and is answered NotFound.
C15_OneRemoveSucceeds ==
  [][ \A w \in Waiting :
        (w.pc = "findByIdAndDelete" /\ out' # Null /\ Val(out').req = w.req
           /\ inflight' = Leave(w))
          => IF w.req.id \in DOMAIN store
             THEN Val(out').res = Removed
             ELSE Val(out').res = NotFound ]_vars

\* C16: the page and the total of a list response describe one state of the
\* store: with page p, limit l and totalDogs t the response carries
\* min(l, max(0, t - (p - 1) * l)) dogs, so never more than t, also when
\* writes fall between the page query and the count query.
C16_PageAndTotalAgree ==
  Lists =>
    LET page == PageAsked(Sent.req.query)
        limit == LimitAsked(Sent.req.query)
        total == Sent.res.pagination.totalDogs
    IN  /\ Len(Sent.res.dogs) <= total
        /\ Len(Sent.res.dogs) = Min(limit, Max(0, total - (page - 1) * limit))

\* C17: an adoptDog or removeDog request answered 400, 403 or 404 (validation
\* failure, AlreadyAdopted, SelfAdoption, 'Cannot remove an adopted dog',
\* Forbidden, NotFound) leaves the store as it was.
C17_FailureChangesNothing ==
  [][ ( /\ out = Null /\ out' # Null
        /\ Val(out').req.handler \in {"adoptDog", "removeDog"}
        /\ Val(out').res.status \in {400, 403, 404} )
      => store' = store ]_vars

C17_Witness ==
  /\ SentBy("adoptDog") /\ Sent.res = AlreadyAdopted
  /\ Has(Sent.req.body, "message")
  /\ IsAdopted(Sent.req.id)
  /\ store[Sent.req.id].adopter # Some(Sent.req.user)
  /\ store[Sent.req.id].adoptionMessage = Null

====
